---- MODULE Spec2Model ----
(***************************************************************************)
(* Model of engine/networking/buffer.py: the Buffer byte cursor and its    *)
(* codecs (struct formats, varint, packet frames, strings, positions,      *)
(* directions).                                                            *)
(*                                                                         *)
(* Bytes are integers 0..255 and byte strings are sequences of them.       *)
(* Python integers are unbounded, so the numbers the codecs compute with   *)
(* (up to 70 bits in unpack_varint, 64 bits in pack_position) are kept as  *)
(* sign and magnitude, the magnitude a little-endian sequence of bits      *)
(* without leading zero bits.  Buffer positions and lengths are small and  *)
(* are plain integers.                                                     *)
(***************************************************************************)
EXTENDS Integers, Sequences, FiniteSets, TLC

VARIABLES
    buff,    \* Buffer.buff: the byte sequence of the cursor
    pos,     \* Buffer.pos: the read position
    op,      \* name of the last call made ("init" after construction)
    arg,     \* arguments of the last call
    raised,  \* exception the last call raised, "none" if it returned
    ret,     \* value the last call returned
    buff0,   \* Buffer.buff before the last call
    pos0,    \* Buffer.pos before the last call
    packed,  \* the last pack_* call: arguments, exception, bytes produced
    saved    \* Buffer.buff right after the last save() (or construction), and
             \* whether add() was called and whether a call raised since then

vars == <<buff, pos, op, arg, raised, ret, buff0, pos0, packed, saved>>

----------------------------------------------------------------------------
(* Natural numbers as little-endian bit sequences.                         *)

RECURSIVE Norm(_)
Norm(s) == IF s = <<>> THEN <<>>
           ELSE IF s[Len(s)] = 0 THEN Norm(SubSeq(s, 1, Len(s) - 1))
           ELSE s

RECURSIVE NatOfInt(_)
NatOfInt(n) == IF n = 0 THEN <<>> ELSE <<n % 2>> \o NatOfInt(n \div 2)

RECURSIVE IntOfNat(_)
IntOfNat(s) == IF s = <<>> THEN 0 ELSE s[1] + 2 * IntOfNat(Tail(s))

\* -value of s, computed without leaving the negative range
RECURSIVE NegIntOfNat(_)
NegIntOfNat(s) == IF s = <<>> THEN 0 ELSE 2 * NegIntOfNat(Tail(s)) - s[1]

Zeros(k) == [i \in 1..k |-> 0]

Pow2(k) == [i \in 1..(k + 1) |-> IF i = k + 1 THEN 1 ELSE 0]

BitAt(s, k) == IF k + 1 <= Len(s) THEN s[k + 1] ELSE 0

\* s << k
ShiftL(s, k) == IF s = <<>> THEN <<>> ELSE Zeros(k) \o s

\* s >> k
ShiftR(s, k) == IF k >= Len(s) THEN <<>> ELSE SubSeq(s, k + 1, Len(s))

\* s & (2^k - 1)
LowBits(s, k) == Norm(SubSeq(s, 1, IF k < Len(s) THEN k ELSE Len(s)))

NatOr(a, b) ==
    LET n == IF Len(a) > Len(b) THEN Len(a) ELSE Len(b)
    IN  [i \in 1..n |-> IF BitAt(a, i - 1) = 1 \/ BitAt(b, i - 1) = 1 THEN 1 ELSE 0]

RECURSIVE AddC(_, _, _)
AddC(a, b, c) ==
    IF a = <<>> /\ b = <<>> THEN (IF c = 1 THEN <<1>> ELSE <<>>)
    ELSE LET x == IF a = <<>> THEN 0 ELSE a[1]
             y == IF b = <<>> THEN 0 ELSE b[1]
             t == x + y + c
         IN  <<t % 2>> \o AddC(IF a = <<>> THEN <<>> ELSE Tail(a),
                               IF b = <<>> THEN <<>> ELSE Tail(b), t \div 2)

NatAdd(a, b) == AddC(a, b, 0)

\* a - b for a >= b, before normalisation
RECURSIVE SubB(_, _, _)
SubB(a, b, c) ==
    IF a = <<>> THEN <<>>
    ELSE LET y == IF b = <<>> THEN 0 ELSE b[1]
             t == a[1] - y - c
         IN  <<t % 2>> \o SubB(Tail(a), IF b = <<>> THEN <<>> ELSE Tail(b),
                               IF t < 0 THEN 1 ELSE 0)

NatSub(a, b) == Norm(SubB(a, b, 0))

RECURSIVE LessEqLen(_, _)
LessEqLen(a, b) ==
    IF a = <<>> THEN FALSE
    ELSE IF a[Len(a)] # b[Len(b)] THEN a[Len(a)] < b[Len(b)]
    ELSE LessEqLen(SubSeq(a, 1, Len(a) - 1), SubSeq(b, 1, Len(b) - 1))

\* a < b for normalised a, b
NatLess(a, b) == IF Len(a) # Len(b) THEN Len(a) < Len(b) ELSE LessEqLen(a, b)

----------------------------------------------------------------------------
(* Python integers: sign and magnitude.                                    *)

MkInt(n, m) == [neg |-> (n /\ Norm(m) # <<>>), mag |-> Norm(m)]

PyInt(n) == IF n < 0 THEN MkInt(TRUE, NatOfInt(0 - n)) ELSE MkInt(FALSE, NatOfInt(n))

PyPow2(k) == MkInt(FALSE, Pow2(k))

PyNeg(a) == MkInt(~a.neg, a.mag)

PyLess(a, b) ==
    IF a.neg /\ ~b.neg THEN TRUE
    ELSE IF ~a.neg /\ b.neg THEN FALSE
    ELSE IF a.neg THEN NatLess(b.mag, a.mag)
    ELSE NatLess(a.mag, b.mag)

PyLeq(a, b) == ~PyLess(b, a)

PyAdd(a, b) ==
    IF a.neg = b.neg THEN MkInt(a.neg, NatAdd(a.mag, b.mag))
    ELSE IF NatLess(a.mag, b.mag) THEN MkInt(b.neg, NatSub(b.mag, a.mag))
    ELSE MkInt(a.neg, NatSub(a.mag, b.mag))

PySub(a, b) == PyAdd(a, PyNeg(b))

\* number & 0x7F, as a byte: Python's & on a negative number is two's
\* complement, so the result is number mod 128
PyAnd7F(a) ==
    LET low == IntOfNat(LowBits(a.mag, 7))
    IN  IF a.neg THEN (128 - low) % 128 ELSE low

\* number >> 7: floor division by 128
PyShr7(a) ==
    IF a.neg THEN MkInt(TRUE, ShiftR(NatAdd(a.mag, NatOfInt(127)), 7))
    ELSE MkInt(FALSE, ShiftR(a.mag, 7))

PyZero == MkInt(FALSE, <<>>)

\* a Python integer in -2^31 .. 2^31 - 1 (all that unpack_varint returns for
\* max_bits <= 32) as a plain integer
IntOfPy(a) == IF a.neg THEN NegIntOfNat(a.mag) ELSE IntOfNat(a.mag)

----------------------------------------------------------------------------
(* Python sequence slicing and the outcome of a call.                      *)

None == "None"

\* Python's index normalisation for a slice bound i of a sequence of length n
SliceIndex(i, n) == IF i < 0 THEN (IF i + n < 0 THEN 0 ELSE i + n)
                    ELSE IF i > n THEN n ELSE i

\* s[i:j]
PySlice(s, i, j) ==
    LET lo == SliceIndex(i, Len(s))
        hi == SliceIndex(j, Len(s))
    IN  IF lo >= hi THEN <<>> ELSE SubSeq(s, lo + 1, hi)

\* s[i:]
PySliceFrom(s, i) == PySlice(s, i, Len(s))

\* a call on the cursor returned value v and left the position at p
Return(v, p) == [raised |-> "none", ret |-> v, pos |-> p]

\* a call on the cursor raised exception e and left the position at p
Raise(e, p) == [raised |-> e, ret |-> None, pos |-> p]

\* exception propagation: r unless the call returned, K(r) when it did
Then(r, K(_)) == IF r.raised # "none" THEN r ELSE K(r)

\* Buffer.__len__
BufferLen(b, p) == Len(b) - p

----------------------------------------------------------------------------
(* Bounds of the model.                                                    *)

\* positions below -MaxNeg are not followed
MaxNeg == 8

----------------------------------------------------------------------------
(* Buffer.read                                                             *)

\* read as it would be with the underrun test forgetting the position
read_ignoring_pos(b, p, length) ==
    IF length > Len(b) THEN Raise("BufferUnderrun", p)
    ELSE Return(PySlice(b, p, p + length), p + length)

\* read(length): pos + length > len(buff) is written length > len(buff) - pos
read(b, p, length) ==
    IF length > Len(b) - p THEN Raise("BufferUnderrun", p)
    ELSE IF length < 0 - MaxNeg - p THEN Raise("beyond_model", p)
    ELSE Return(PySlice(b, p, p + length), p + length)

\* read() with length None
read_all(b, p) == Return(PySliceFrom(b, p), Len(b))

----------------------------------------------------------------------------
(* struct formats: Buffer.pack and Buffer.unpack                           *)

\* struct.calcsize(">" + fmt)
calcsize(fmt) == CASE fmt = "B" -> 1
                   [] fmt = "h" -> 2
                   [] fmt = "Q" -> 8

\* big-endian value of a byte string, as bits
RECURSIVE BitsOfBytes(_)
BitsOfBytes(d) ==
    IF d = <<>> THEN <<>>
    ELSE LET last == d[Len(d)]
         IN  [i \in 1..8 |-> (last \div (2 ^ (i - 1))) % 2]
             \o BitsOfBytes(SubSeq(d, 1, Len(d) - 1))

\* the n big-endian bytes of a number given as bits
RECURSIVE BytesOfBits(_, _)
BytesOfBits(s, n) ==
    IF n = 0 THEN <<>>
    ELSE BytesOfBits(ShiftR(s, 8), n - 1) \o <<IntOfNat(LowBits(s, 8))>>

\* struct.unpack(">" + fmt, data)[0] at position p; struct.error unless
\* data has the size of the format
struct_unpack(fmt, data, p) ==
    IF Len(data) # calcsize(fmt) THEN Raise("struct.error", p)
    ELSE Return(CASE fmt = "B" -> data[1]
                  [] fmt = "h" -> IF 256 * data[1] + data[2] >= 32768
                                  THEN 256 * data[1] + data[2] - 65536
                                  ELSE 256 * data[1] + data[2]
                  [] fmt = "Q" -> MkInt(FALSE, BitsOfBytes(data)),
                p)

\* struct.pack(">" + fmt, value): value an integer for B, a Python integer for Q
pack(fmt, value) ==
    CASE fmt = "B" -> IF value \in 0..255
                      THEN [raised |-> "none", out |-> <<value>>]
                      ELSE [raised |-> "struct.error", out |-> <<>>]
      [] fmt = "Q" -> IF ~value.neg /\ Len(value.mag) <= 64
                      THEN [raised |-> "none", out |-> BytesOfBits(value.mag, 8)]
                      ELSE [raised |-> "struct.error", out |-> <<>>]

unpack(b, p, fmt) ==
    Then(read(b, p, calcsize(fmt)), LAMBDA r : struct_unpack(fmt, r.ret, r.pos))

----------------------------------------------------------------------------
(* Varint                                                                  *)

\* number_min <= number < number_max for max_bits
InVarintRange(number, max_bits) ==
    /\ PyLeq(PyNeg(PyPow2(max_bits - 1)), number)
    /\ PyLess(number, PyPow2(max_bits - 1))

\* the loop of pack_varint from iteration i on; rest is number >> 7
RECURSIVE pack_varint_loop(_, _, _)
RECURSIVE pack_varint_byte(_, _, _, _)
pack_varint_loop(number, i, out) ==
    IF i = 10 THEN out
    ELSE pack_varint_byte(PyAnd7F(number), PyShr7(number), i, out)

pack_varint_byte(b, rest, i, out) ==
    IF rest = PyZero
    THEN out \o pack("B", b).out
    ELSE pack_varint_loop(rest, i + 1,
                          out \o pack("B", IF PyLess(PyZero, rest) THEN b + 128 ELSE b).out)

\* the wrap as it would be if it sent the magnitude instead of adding 2^32
pack_varint_wrap_abs(number) ==
    IF number.neg THEN PyNeg(number) ELSE number

pack_varint_wrap(number) ==
    IF number.neg THEN PyAdd(number, PyPow2(32)) ELSE number

pack_varint_check(number, max_bits) ==
    max_bits >= 1 /\ InVarintRange(number, max_bits)

pack_varint(number, max_bits) ==
    IF ~pack_varint_check(number, max_bits)
    THEN [raised |-> "ValueError", out |-> <<>>]
    ELSE [raised |-> "none",
          out |-> pack_varint_loop(pack_varint_wrap(number), 0, <<>>)]

\* number |= (b & 0x7F) << 7*i, on bits
unpack_varint_or(number, b, i) == NatOr(number, ShiftL(NatOfInt(b % 128), 7 * i))

\* the loop of unpack_varint from iteration i on; number is kept as bits
RECURSIVE unpack_varint_loop(_, _, _, _)
RECURSIVE unpack_varint_byte(_, _, _, _)
unpack_varint_loop(b, p, i, number) ==
    IF i = 10 THEN Return(number, p)
    ELSE unpack_varint_byte(b, i, number, unpack(b, p, "B"))

\* the rest of the iteration once unpack("B") gave r
unpack_varint_byte(b, i, number, r) ==
    IF r.raised # "none" THEN r
    ELSE IF r.ret < 128 THEN Return(unpack_varint_or(number, r.ret, i), r.pos)
    ELSE unpack_varint_loop(b, r.pos, i + 1, unpack_varint_or(number, r.ret, i))

\* two's complement over 32 bits of the decoded number
unpack_varint_sign(number) ==
    IF BitAt(number, 31) = 1 THEN PySub(MkInt(FALSE, number), PyPow2(32))
    ELSE MkInt(FALSE, number)

\* the range check as it would be if it always tested against 32 bits
unpack_varint_check_32(number, max_bits) ==
    max_bits >= 1 /\ InVarintRange(number, 32)

unpack_varint_check(number, max_bits) ==
    max_bits >= 1 /\ InVarintRange(number, max_bits)

\* the range check of unpack_varint on the signed number, at position p
unpack_varint_result(number, max_bits, p) ==
    IF ~unpack_varint_check(number, max_bits) THEN Raise("ValueError", p)
    ELSE Return(number, p)

unpack_varint(b, p, max_bits) ==
    Then(unpack_varint_loop(b, p, 0, <<>>),
         LAMBDA r : unpack_varint_result(unpack_varint_sign(r.ret), max_bits, r.pos))

----------------------------------------------------------------------------
(* zlib, as far as pack_packet and unpack_packet use it.  The compressed   *)
(* form is the zlib stream of one stored block: header 78 9C, block byte   *)
(* 01, LEN and its complement (little-endian), the data, Adler-32.         *)

\* the sum of w(i) * d[i] for i in lo..hi, w(i) being 1 (weighted FALSE) or
\* the number of bytes from i to the end of d; summed by halves
RECURSIVE AdlerSum(_, _, _, _)
AdlerSum(d, lo, hi, weighted) ==
    IF lo > hi THEN 0
    ELSE IF lo = hi THEN (IF weighted THEN Len(d) - lo + 1 ELSE 1) * d[lo]
    ELSE AdlerSum(d, lo, (lo + hi) \div 2, weighted)
         + AdlerSum(d, (lo + hi) \div 2 + 1, hi, weighted)

\* Adler-32, low half: 1 plus the sum of the bytes
AdlerA(d) == (1 + AdlerSum(d, 1, Len(d), FALSE)) % 65521

\* Adler-32, high half: the sum of the low halves after each byte
AdlerB(d) == (Len(d) + AdlerSum(d, 1, Len(d), TRUE)) % 65521

Adler32(d) == <<AdlerB(d) \div 256, AdlerB(d) % 256, AdlerA(d) \div 256, AdlerA(d) % 256>>

\* zlib.compress(data)
zlib_compress(d) ==
    <<120, 156, 1, Len(d) % 256, Len(d) \div 256,
      (65535 - Len(d)) % 256, (65535 - Len(d)) \div 256>> \o d \o Adler32(d)

\* zlib.decompress(data): zlib.error on anything but a well-formed stream
zlib_decompress(z) ==
    LET n == Len(z) - 11
        d == SubSeq(z, 8, 7 + n)
    IN  IF /\ n >= 0
           /\ SubSeq(z, 1, 3) = <<120, 156, 1>>
           /\ z[4] + 256 * z[5] = n
           /\ z[6] + 256 * z[7] = 65535 - n
           /\ SubSeq(z, 8 + n, Len(z)) = Adler32(d)
        THEN [raised |-> "none", ret |-> d]
        ELSE [raised |-> "zlib.error", ret |-> None]

----------------------------------------------------------------------------
(* Packet                                                                  *)

\* the payload of pack_packet after the compression step
pack_packet_data(data, compression_threshold) ==
    IF compression_threshold >= 0
    THEN IF Len(data) >= compression_threshold
         THEN pack_varint(PyInt(Len(data)), 32).out \o zlib_compress(data)
         ELSE pack_varint(PyInt(0), 32).out \o data
    ELSE data

\* the length prefix and the payload
pack_packet_frame(d) ==
    [raised |-> "none", out |-> pack_varint(PyInt(Len(d)), 32).out \o d]

pack_packet(data, compression_threshold) ==
    pack_packet_frame(pack_packet_data(data, compression_threshold))

\* cls(body): a new Buffer at position 0
NewBuffer(body) == [buff |-> body, pos |-> 0]

\* zlib.decompress(buff.read()) and cls(body), the source cursor being at p
unpack_packet_inflate(z, p) ==
    IF z.raised # "none" THEN Raise(z.raised, p) ELSE Return(NewBuffer(z.ret), p)

\* the rest of unpack_packet once buff.unpack_varint() gave u
unpack_packet_inner(body, u, p) ==
    IF u.raised # "none" THEN Raise(u.raised, p)
    ELSE IF PyLess(PyZero, u.ret)
    THEN unpack_packet_inflate(zlib_decompress(read_all(body, u.pos).ret), p)
    ELSE Return([buff |-> body, pos |-> u.pos], p)

\* the compression step of unpack_packet on the frame body
unpack_packet_body(body, compression_threshold, p) ==
    IF compression_threshold >= 0
    THEN unpack_packet_inner(body, unpack_varint(body, 0, 32), p)
    ELSE Return(NewBuffer(body), p)

\* unpack_packet as it would be if it took whatever bytes follow the length
\* prefix instead of reading the declared length
unpack_packet_reading_rest(b, p, compression_threshold) ==
    Then(unpack_varint(b, p, 32), LAMBDA n :
    Then(read_all(b, n.pos), LAMBDA r :
    unpack_packet_body(r.ret, compression_threshold, r.pos)))

unpack_packet(b, p, compression_threshold) ==
    Then(unpack_varint(b, p, 32), LAMBDA n :
    Then(read(b, n.pos, IntOfPy(n.ret)), LAMBDA r :
    unpack_packet_body(r.ret, compression_threshold, r.pos)))

----------------------------------------------------------------------------
(* String                                                                  *)

IsCont(d, i) == i <= Len(d) /\ d[i] \in 128..191

\* bytes.decode("utf-8"): the code points, or UnicodeDecodeError
RECURSIVE utf8_decode(_)
utf8_decode(d) ==
    IF d = <<>> THEN [raised |-> "none", ret |-> <<>>]
    ELSE LET b1 == d[1]
             n  == IF b1 < 128 THEN 1
                   ELSE IF b1 \in 194..223 /\ IsCont(d, 2) THEN 2
                   ELSE IF /\ b1 \in 224..239 /\ IsCont(d, 2) /\ IsCont(d, 3)
                           /\ (b1 = 224 => d[2] >= 160)
                           /\ (b1 = 237 => d[2] <= 159) THEN 3
                   ELSE IF /\ b1 \in 240..244
                           /\ IsCont(d, 2) /\ IsCont(d, 3) /\ IsCont(d, 4)
                           /\ (b1 = 240 => d[2] >= 144)
                           /\ (b1 = 244 => d[2] <= 143) THEN 4
                   ELSE 0
             cp == CASE n = 1 -> b1
                     [] n = 2 -> (b1 % 32) * 64 + (d[2] % 64)
                     [] n = 3 -> ((b1 % 16) * 64 + (d[2] % 64)) * 64 + (d[3] % 64)
                     [] n = 4 -> (((b1 % 8) * 64 + (d[2] % 64)) * 64 + (d[3] % 64)) * 64
                                 + (d[4] % 64)
                     [] OTHER -> 0
         IN  IF n = 0 THEN [raised |-> "UnicodeDecodeError", ret |-> None]
             ELSE LET rest == utf8_decode(SubSeq(d, n + 1, Len(d)))
                  IN  IF rest.raised # "none" THEN rest
                      ELSE [raised |-> "none", ret |-> <<cp>> \o rest.ret]

\* the text, or the exception of decode(), the cursor being at p
unpack_string_text(text, p) ==
    IF text.raised # "none" THEN Raise(text.raised, p) ELSE Return(text.ret, p)

unpack_string(b, p) ==
    Then(unpack_varint(b, p, 16), LAMBDA length :
    Then(read(b, length.pos, IntOfPy(length.ret)), LAMBDA r :
    unpack_string_text(utf8_decode(r.ret), r.pos)))

----------------------------------------------------------------------------
(* Position                                                                *)

pack_twos_comp(bits, number) ==
    IF number < 0 THEN number + 2 ^ bits ELSE number

\* number << k for a Python integer
PyShl(a, k) == MkInt(a.neg, ShiftL(a.mag, k))

pack_position(x, y, z) ==
    pack("Q", PyAdd(PyAdd(PyShl(PyInt(pack_twos_comp(26, x)), 38),
                          PyShl(PyInt(pack_twos_comp(12, y)), 26)),
                    PyInt(pack_twos_comp(26, z))))

unpack_twos_comp(bits, tc_number) ==
    IF (tc_number \div 2 ^ (bits - 1)) % 2 # 0 THEN tc_number - 2 ^ bits
    ELSE tc_number

\* number >> 38
position_x(number) == IntOfNat(ShiftR(number.mag, 38))

\* the y field as it would be with an 11-bit mask
position_y_11(number) == IntOfNat(LowBits(ShiftR(number.mag, 26), 11))

\* number >> 26 & 0xFFF
position_y(number) == IntOfNat(LowBits(ShiftR(number.mag, 26), 12))

\* number & 0x3FFFFFF
position_z(number) == IntOfNat(LowBits(number.mag, 26))

unpack_position(b, p) ==
    Then(unpack(b, p, "Q"), LAMBDA number :
    Return(<<unpack_twos_comp(26, position_x(number.ret)),
             unpack_twos_comp(12, position_y(number.ret)),
             unpack_twos_comp(26, position_z(number.ret))>>,
           number.pos))

----------------------------------------------------------------------------
(* Direction                                                               *)

directions == <<"down", "up", "north", "south", "west", "east">>

\* directions.index(direction)
directions_index(direction) ==
    CHOOSE i \in 0..(Len(directions) - 1) : directions[i + 1] = direction

pack_direction(direction) == pack_varint(PyInt(directions_index(direction)), 32)

\* directions[i] for a Python integer i, the cursor being at p: a negative
\* index counts from the end of the tuple
directions_item(i, p) ==
    IF PyLess(i, PyInt(0 - Len(directions))) \/ PyLeq(PyInt(Len(directions)), i)
    THEN Raise("IndexError", p)
    ELSE Return(directions[(IF i.neg THEN IntOfPy(i) + Len(directions)
                            ELSE IntOfPy(i)) + 1], p)

unpack_direction(b, p) ==
    Then(unpack_varint(b, p, 32), LAMBDA i : directions_item(i.ret, i.pos))

----------------------------------------------------------------------------
(* Buffer.add, save, restore, discard: the cursor after the call           *)

add(b, p, data) == [buff |-> b \o data, pos |-> p]

save(b, p) == [buff |-> PySliceFrom(b, p), pos |-> 0]

\* restore as it would be if it dropped the consumed bytes as save does
restore_dropping(b, p) == [buff |-> PySliceFrom(b, p), pos |-> 0]

restore(b, p) == [buff |-> b, pos |-> 0]

discard(b, p) == [buff |-> b, pos |-> Len(b)]

----------------------------------------------------------------------------
(* Calls: how an operation changes the state.                              *)

NoPack == [fn |-> "none"]

\* the bytes b have just been retained by __init__ or save()
Saved(b) == [buff |-> b, added |-> FALSE, failed |-> FALSE]

\* a call op(a) on the cursor with outcome r; the bytes are left alone
Call(name, a, r) ==
    /\ r.raised # "beyond_model"
    /\ op' = name
    /\ arg' = a
    /\ raised' = r.raised
    /\ ret' = r.ret
    /\ buff0' = buff
    /\ pos0' = pos
    /\ pos' = r.pos
    /\ buff' = buff
    /\ saved' = [saved EXCEPT !.failed = @ \/ r.raised # "none"]
    /\ UNCHANGED packed

\* a pack_* class method is called and a Buffer is constructed on its output
\* (an empty Buffer when it raised)
PackCall(name, a, r) ==
    /\ op = "init"
    /\ buff = <<>>
    /\ packed' = [fn |-> name, arg |-> a, raised |-> r.raised, out |-> r.out]
    /\ op' = name
    /\ arg' = a
    /\ raised' = r.raised
    /\ ret' = r.out
    /\ buff0' = buff
    /\ pos0' = pos
    /\ buff' = r.out
    /\ pos' = 0
    /\ saved' = Saved(r.out)

\* Buffer.__init__(data)
Construct(data) ==
    /\ buff = data
    /\ pos = 0
    /\ op = "init"
    /\ arg = None
    /\ raised = "none"
    /\ ret = None
    /\ buff0 = data
    /\ pos0 = 0
    /\ packed = NoPack
    /\ saved = Saved(data)

\* a call op(a) that returns None and leaves the cursor as c
Update(name, a, c) ==
    /\ op' = name
    /\ arg' = a
    /\ raised' = "none"
    /\ ret' = None
    /\ buff0' = buff
    /\ pos0' = pos
    /\ buff' = c.buff
    /\ pos' = c.pos
    /\ saved' = IF name = "save" THEN Saved(c.buff)
                ELSE IF name = "add" THEN [saved EXCEPT !.added = TRUE]
                ELSE saved
    /\ UNCHANGED packed

----------------------------------------------------------------------------
(* SpecVarint: pack_varint and unpack_varint on chosen numbers and streams *)

\* most continuation bytes at the head of a stream
MaxCont == 11

Bits == {1, 8, 16, 32, 33, 64}

Numbers ==
    {PyInt(n) : n \in {0, 1, 127, 128, 300, 16383, 16384, 32767, 32768,
                       2147483647, -1, -2, -128, -300, -32768, -32769}}
    \cup {PyPow2(31), PyNeg(PyPow2(31)), PySub(PyNeg(PyPow2(31)), PyInt(1)),
          PySub(PyPow2(32), PyInt(1)), PyPow2(32), PyNeg(PyPow2(32)),
          PySub(PyNeg(PyPow2(32)), PyInt(1)), PyPow2(40), PyNeg(PyPow2(40)),
          PySub(PyPow2(63), PyInt(1)), PyPow2(63), PyNeg(PyPow2(63)),
          PySub(PyNeg(PyPow2(63)), PyInt(1))}

Rep(c, k) == [i \in 1..k |-> c]

\* k equal bytes with the continuation bit, then a tail
Streams ==
    {Rep(c, k) \o t : c \in {128, 255}, k \in 0..MaxCont,
                      t \in {<<>>, <<0>>, <<1>>, <<8>>, <<15>>, <<24>>, <<127>>}}
    \cup {<<172, 2>>, <<250, 255, 255, 255, 15>>, <<128, 128, 1>>}

InitVarint == \E data \in Streams : Construct(data)

Do_pack_varint ==
    \E number \in Numbers, max_bits \in Bits :
        PackCall("pack_varint", [number |-> number, max_bits |-> max_bits],
                 pack_varint(number, max_bits))

Do_unpack_varint ==
    \E max_bits \in Bits :
        Call("unpack_varint", [max_bits |-> max_bits],
             unpack_varint(buff, pos, max_bits))

NextVarint == Do_pack_varint \/ Do_unpack_varint

SpecVarint == InitVarint /\ [][NextVarint]_vars

----------------------------------------------------------------------------
(* Claims about the varint codec, checked under SpecVarint.                *)

\* -2^(bits-1) <= v < 2^(bits-1)
Representable(v, bits) ==
    /\ ~PyLess(v, PyNeg(PyPow2(bits - 1)))
    /\ PyLess(v, PyPow2(bits - 1))

\* the last call was unpack_varint on a fresh cursor holding what the last
\* pack_varint produced, with the same max_bits
UnpackedWhatWasPacked ==
    /\ op = "unpack_varint"
    /\ packed.fn = "pack_varint"
    /\ packed.raised = "none"
    /\ arg.max_bits = packed.arg.max_bits
    /\ pos0 = 0
    /\ buff0 = packed.out

\* C3: for every max_bits and every number with
\* -2^(max_bits-1) <= number < 2^(max_bits-1), pack_varint succeeds, and
\* unpack_varint(max_bits) on a cursor holding its output returns exactly
\* number and leaves no unread bytes.
C3_VarintRoundTrip ==
    /\ (packed.fn = "pack_varint"
        /\ Representable(packed.arg.number, packed.arg.max_bits))
       => packed.raised = "none"
    /\ (UnpackedWhatWasPacked
        /\ Representable(packed.arg.number, packed.arg.max_bits))
       => /\ raised = "none"
          /\ ret = packed.arg.number
          /\ pos = Len(buff)

\* the bytes of the varint at position p of b: up to and including the first
\* byte without the continuation bit, ten bytes at most
RECURSIVE VarintBytes(_, _, _)
VarintBytes(b, p, n) ==
    IF n = 10 \/ p >= Len(b) THEN <<>>
    ELSE IF b[p + 1] < 128 THEN <<b[p + 1]>>
    ELSE <<b[p + 1]>> \o VarintBytes(b, p + 1, n + 1)

\* the varint at position p of b is all there
VarintComplete(b, p) ==
    LET v == VarintBytes(b, p, 0)
    IN  v # <<>> /\ (v[Len(v)] < 128 \/ Len(v) = 10)

\* the 7-bit groups of the bytes v, least significant first, as one number
RECURSIVE GroupsValue(_)
GroupsValue(v) ==
    IF v = <<>> THEN <<>>
    ELSE LET g == v[1] % 128
         IN  Norm([i \in 1..7 |-> (g \div (2 ^ (i - 1))) % 2] \o GroupsValue(Tail(v)))

\* the integer a varint stands for: its groups, read as two's complement
\* over 32 bits (2^32 is taken off when bit 31 is set)
DecodedInteger(b, p) ==
    LET n == GroupsValue(VarintBytes(b, p, 0))
    IN  IF BitAt(n, 31) = 1 THEN PySub(MkInt(FALSE, n), PyPow2(32))
        ELSE MkInt(FALSE, n)

\* C4: pack_varint raises and produces no bytes for every number outside
\* [-2^(max_bits-1), 2^(max_bits-1)); unpack_varint raises whenever the
\* integer decoded from the stream lies outside that range, and a value it
\* returns is the decoded integer itself, never one clamped or truncated
\* into the range.
C4_VarintRangeChecked ==
    /\ (packed.fn = "pack_varint"
        /\ ~Representable(packed.arg.number, packed.arg.max_bits))
       => (packed.raised = "ValueError" /\ packed.out = <<>>)
    /\ (op = "unpack_varint" /\ VarintComplete(buff0, pos0))
       => /\ ~Representable(DecodedInteger(buff0, pos0), arg.max_bits)
             => raised = "ValueError"
          /\ raised = "none"
             => /\ ret = DecodedInteger(buff0, pos0)
                /\ Representable(ret, arg.max_bits)

\* unpack_varint(8) met the varint 16384 and raised
C4_Witness ==
    /\ op = "unpack_varint"
    /\ arg.max_bits = 8
    /\ buff0 = <<128, 128, 1>>
    /\ pos0 = 0
    /\ raised = "ValueError"

\* the ten bytes at position p of b all carry the continuation bit
TenContinuationBytes(b, p) ==
    /\ p >= 0
    /\ Len(b) >= p + 10
    /\ \A i \in 1..10 : b[p + i] >= 128

\* C5: unpack_varint consumes at most 10 bytes, and fails rather than
\* returning a value whenever the next 10 bytes of the stream all have the
\* continuation bit set, whatever their payload bits.
C5_VarintTenByteLimit ==
    op = "unpack_varint"
    => /\ pos - pos0 <= 10
       /\ TenContinuationBytes(buff0, pos0) => raised # "none"

\* the reference encoding of a natural number given as bits
RECURSIVE ReferenceGroups(_)
ReferenceGroups(n) ==
    IF Len(n) <= 7 THEN <<IntOfNat(n)>>
    ELSE <<IntOfNat(LowBits(n, 7)) + 128>> \o ReferenceGroups(ShiftR(n, 7))

ReferenceEncoding(v) ==
    ReferenceGroups(IF v.neg THEN PyAdd(v, PyPow2(32)).mag ELSE v.mag)

\* C6: for every number in [-2^31, 2^31), pack_varint(number) is the
\* reference encoding (7-bit groups of number, or of number + 2^32 when it
\* is negative, least significant first, 0x80 set on all bytes but the
\* last); 300 gives 0xAC 0x02; at most 10 bytes are produced; and
\* unpack_varint on 0xAC 0x02 returns 300.
C6_VarintReferenceEncoding ==
    /\ (packed.fn = "pack_varint" /\ packed.arg.max_bits = 32
        /\ Representable(packed.arg.number, 32))
       => /\ packed.raised = "none"
          /\ packed.out = ReferenceEncoding(packed.arg.number)
          /\ Len(packed.out) <= 10
          /\ packed.arg.number = PyInt(300) => packed.out = <<172, 2>>
    /\ (op = "unpack_varint" /\ arg.max_bits = 32
        /\ buff0 = <<172, 2>> /\ pos0 = 0)
       => (raised = "none" /\ ret = PyInt(300))

\* 300 was packed by pack_varint and unpacked again
C6_Witness ==
    /\ packed.fn = "pack_varint"
    /\ packed.arg = [number |-> PyInt(300), max_bits |-> 32]
    /\ op = "unpack_varint"
    /\ pos0 = 0
    /\ buff0 = <<172, 2>>
    /\ raised = "none"
    /\ ret = PyInt(300)

----------------------------------------------------------------------------
(* Spec: one cursor, fed with chunks of bytes and read by any sequence of  *)
(* calls.                                                                  *)

\* most bytes the cursor holds
MaxBuf == 6

\* largest length passed to read
MaxRead == 3

\* what add() is called with: a continuation byte, the frame or string "A"
\* and a second byte, the varint -6
Chunks == {<<128>>, <<2, 65>>, <<250, 255, 255, 255, 15>>}

Formats == {"B", "h"}

\* longest body passed to pack_packet
MaxBody == 2

\* compression thresholds: disabled, 0, and up to one above the longest body
Thresholds == -1..(MaxBody + 1)

Init == \E data \in Chunks \cup {<<>>} : Construct(data)

Do_add ==
    \E data \in Chunks :
        /\ Len(buff) + Len(data) <= MaxBuf
        /\ Update("add", [data |-> data], add(buff, pos, data))

Do_save == Update("save", None, save(buff, pos))

Do_restore == Update("restore", None, restore(buff, pos))

Do_discard == Update("discard", None, discard(buff, pos))

Do_read ==
    \/ \E length \in 0..MaxRead :
           Call("read", [length |-> length], read(buff, pos, length))
    \/ Call("read_all", None, read_all(buff, pos))

Do_unpack ==
    \E fmt \in Formats : Call("unpack", [fmt |-> fmt], unpack(buff, pos, fmt))

Do_unpack_string == Call("unpack_string", None, unpack_string(buff, pos))

Do_unpack_packet ==
    \E compression_threshold \in Thresholds :
        Call("unpack_packet", [compression_threshold |-> compression_threshold],
             unpack_packet(buff, pos, compression_threshold))

Next ==
    \/ Do_add
    \/ Do_save
    \/ Do_restore
    \/ Do_discard
    \/ Do_read
    \/ Do_unpack
    \/ Do_unpack_varint
    \/ Do_unpack_string
    \/ Do_unpack_packet

Spec == Init /\ [][Next]_vars

----------------------------------------------------------------------------
(* Claims about the cursor, checked under Spec.                            *)

C2_PositionInBounds == 0 <= pos /\ pos <= Len(buff)

\* the unread bytes before the last call: buff[pos:]
Unread0 == PySliceFrom(buff0, pos0)

\* the bytes u start with a complete varint that declares, within max_bits,
\* more bytes than follow it
DeclaresMoreThanFollows(u, max_bits) ==
    /\ VarintComplete(u, 0)
    /\ Representable(DecodedInteger(u, 0), max_bits)
    /\ PyLess(PyInt(Len(u) - Len(VarintBytes(u, 0, 0))), DecodedInteger(u, 0))

\* the last call was an unpack of a value of which the unread bytes held
\* only a part
UnpackedTruncated ==
    \/ op = "unpack" /\ Len(Unread0) < calcsize(arg.fmt)
    \/ op = "unpack_varint" /\ ~VarintComplete(Unread0, 0)
    \/ /\ op = "unpack_string"
       /\ (~VarintComplete(Unread0, 0) \/ DeclaresMoreThanFollows(Unread0, 16))
    \/ /\ op = "unpack_packet"
       /\ (~VarintComplete(Unread0, 0) \/ DeclaresMoreThanFollows(Unread0, 32))

\* C10: unpack of a fixed-width format, unpack_varint, unpack_string and
\* unpack_packet, run on a cursor whose unread bytes end before the value is
\* complete, raise BufferUnderrun and return nothing.
C10_TruncatedRaisesUnderrun ==
    UnpackedTruncated => (raised = "BufferUnderrun" /\ ret = None)

\* C11: in every reachable cursor state save() sets pos to 0 and replaces
\* buff by exactly the bytes that were unread before the call (buff[pos:]),
\* so the consumed prefix is no longer held; the unread bytes and the
\* remaining length (Buffer.__len__) are what they were before the call.
C11_SaveKeepsUnread ==
    op = "save"
    => /\ pos = 0
       /\ buff = Unread0
       /\ PySliceFrom(buff, pos) = Unread0
       /\ BufferLen(buff, pos) = BufferLen(buff0, pos0)

\* C12: restore() called after any sequence of read, discard and unpack
\* calls, successful or failing, since the last save() (or since
\* construction) sets pos to 0 and leaves buff the bytes that save()
\* retained, none of them dropped.
C12_RestoreKeepsSaved ==
    (op = "restore" /\ ~saved.added) => (pos = 0 /\ buff = saved.buff)

\* restore() in the middle of retained bytes, after a call that raised
C12_Witness ==
    /\ op = "restore"
    /\ ~saved.added
    /\ saved.failed
    /\ pos0 > 0
    /\ pos0 < Len(buff0)
    /\ pos = 0
    /\ buff = saved.buff

----------------------------------------------------------------------------
(* SpecPacket: pack_packet, and unpack_packet on the frame it produced     *)

RECURSIVE SeqsUpTo(_, _)
SeqsUpTo(S, n) ==
    IF n = 0 THEN {<<>>}
    ELSE SeqsUpTo(S, n - 1) \cup {<<x>> \o t : x \in S, t \in SeqsUpTo(S, n - 1)}

Bodies == SeqsUpTo({0, 65}, MaxBody)

InitPacket == Construct(<<>>)

Do_pack_packet ==
    \E data \in Bodies, compression_threshold \in Thresholds :
        PackCall("pack_packet",
                 [data |-> data, compression_threshold |-> compression_threshold],
                 pack_packet(data, compression_threshold))

NextPacket == Do_pack_packet \/ Do_unpack_packet \/ Do_restore

SpecPacket == InitPacket /\ [][NextPacket]_vars

\* C7: for every body, the empty one included, and every threshold T, the
\* cursor that unpack_packet(T) returns on a cursor holding
\* pack_packet(body, T) has exactly body as its unread bytes.
C7_PacketRoundTrip ==
    (/\ op = "unpack_packet"
     /\ packed.fn = "pack_packet"
     /\ arg.compression_threshold = packed.arg.compression_threshold
     /\ pos0 = 0
     /\ buff0 = packed.out)
    => /\ raised = "none"
       /\ PySliceFrom(ret.buff, ret.pos) = packed.arg.data

----------------------------------------------------------------------------
(* SpecChunked: a frame made by pack_packet arrives in two chunks; the     *)
(* cursor is constructed on the first and add() delivers the second.       *)

\* length of the long body, whose frame has a length prefix of two bytes
MaxLong == 128

LongBody == [i \in 1..MaxLong |-> 65]

\* the frames delivered: every short body under every threshold, and the
\* long body uncompressed (threshold -1) and compressed (threshold 0)
ChunkCases == (Bodies \X Thresholds) \cup ({LongBody} \X {-1, 0})

\* u is the frame f cut short
IsProperPrefix(u, f) == Len(u) < Len(f) /\ u = SubSeq(f, 1, Len(u))

\* Buffer(chunk), chunk being the first k bytes of the frame r.out that
\* pack_packet made from the arguments a
Delivered(a, r, k) ==
    /\ r.raised = "none"
    /\ packed = [fn |-> "pack_packet", arg |-> a, raised |-> "none", out |-> r.out]
    /\ buff = SubSeq(r.out, 1, k)
    /\ pos = 0
    /\ op = "init"
    /\ arg = None
    /\ raised = "none"
    /\ ret = None
    /\ buff0 = buff
    /\ pos0 = 0
    /\ saved = Saved(buff)

\* the places where the frame f can be cut: before any of its bytes
Cuts(f) == 0..(Len(f) - 1)

InitChunked ==
    \E c \in ChunkCases :
        \E k \in Cuts(pack_packet(c[1], c[2]).out) :
            Delivered([data |-> c[1], compression_threshold |-> c[2]],
                      pack_packet(c[1], c[2]), k)

\* add() of the bytes of the frame that have not arrived yet
Do_add_missing ==
    /\ packed.fn = "pack_packet"
    /\ IsProperPrefix(buff, packed.out)
    /\ Update("add",
              [data |-> SubSeq(packed.out, Len(buff) + 1, Len(packed.out))],
              add(buff, pos, SubSeq(packed.out, Len(buff) + 1, Len(packed.out))))

\* unpack_packet with the threshold the frame was packed with
Do_unpack_frame ==
    /\ packed.fn = "pack_packet"
    /\ Call("unpack_packet",
            [compression_threshold |-> packed.arg.compression_threshold],
            unpack_packet(buff, pos, packed.arg.compression_threshold))

NextChunked == Do_unpack_frame \/ Do_restore \/ Do_add_missing

SpecChunked == InitChunked /\ [][NextChunked]_vars

\* the outcome of unpack_packet: the exception, or the unread bytes of the
\* cursor it returned
Decoded(r) ==
    [raised |-> r.raised,
     body |-> IF r.raised = "none" THEN PySliceFrom(r.ret.buff, r.ret.pos)
              ELSE <<>>]

\* the last call was unpack_packet(T) at position 0, T being the threshold
\* the frame was packed with
UnpackedAtStart ==
    /\ op = "unpack_packet"
    /\ packed.fn = "pack_packet"
    /\ arg.compression_threshold = packed.arg.compression_threshold
    /\ pos0 = 0

\* C13: on a cursor at position 0 holding a proper prefix of the frame
\* pack_packet(body, T), unpack_packet(T) raises BufferUnderrun and leaves
\* buff as it was; once restore() and add() of the missing suffix have made
\* the cursor hold the whole frame at position 0, unpack_packet(T) returns
\* the same body as on a cursor constructed on the whole frame and leaves
\* pos at the end of the frame.
C13_ChunkedDeliveryRecoverable ==
    /\ (UnpackedAtStart /\ IsProperPrefix(buff0, packed.out))
       => (raised = "BufferUnderrun" /\ buff = buff0)
    /\ (UnpackedAtStart /\ saved.added /\ buff0 = packed.out)
       => /\ raised = "none"
          /\ Decoded([raised |-> raised, ret |-> ret])
             = Decoded(unpack_packet(packed.out, 0, arg.compression_threshold))
          /\ pos = Len(packed.out)
          /\ buff = packed.out

\* the long body's compressed frame was cut inside the two bytes of its
\* length prefix, the first unpack_packet raised, and after restore() and
\* add() the body came out whole
C13_Witness ==
    /\ UnpackedAtStart
    /\ packed.arg.data = LongBody
    /\ packed.arg.compression_threshold >= 0
    /\ Len(saved.buff) = 1
    /\ saved.failed
    /\ saved.added
    /\ buff0 = packed.out
    /\ raised = "none"
    /\ PySliceFrom(ret.buff, ret.pos) = LongBody
    /\ pos = Len(packed.out)

----------------------------------------------------------------------------
(* SpecPosition: pack_position, and unpack_position on what it produced    *)

Xs == {0 - 2 ^ 25, 1 - 2 ^ 25, -1, 0, 1, 2 ^ 25 - 1, 2 ^ 25, 0 - 2 ^ 26 - 1}

Ys == {0 - 2 ^ 11, -1, 0, 1, 2 ^ 11 - 1, 2 ^ 11}

Zs == {0 - 2 ^ 25, -1, 0, 1, 2 ^ 25 - 1}

InitPosition ==
    \E data \in {<<>>, Rep(255, 8), Rep(0, 7), <<128, 0, 0, 0, 0, 0, 0, 0, 1>>} :
        Construct(data)

Do_pack_position ==
    \E x \in Xs, y \in Ys, z \in Zs :
        PackCall("pack_position", [x |-> x, y |-> y, z |-> z], pack_position(x, y, z))

Do_unpack_position == Call("unpack_position", None, unpack_position(buff, pos))

NextPosition == Do_pack_position \/ Do_unpack_position \/ Do_restore

SpecPosition == InitPosition /\ [][NextPosition]_vars

\* x and z lie in [-2^25, 2^25) and y in [-2^11, 2^11)
PositionInRange(a) ==
    /\ a.x >= 0 - 2 ^ 25 /\ a.x < 2 ^ 25
    /\ a.y >= 0 - 2 ^ 11 /\ a.y < 2 ^ 11
    /\ a.z >= 0 - 2 ^ 25 /\ a.z < 2 ^ 25

\* bits lo..hi of the 64-bit word w hold the two's complement of v
FieldHolds(w, lo, hi, v) ==
    \A k \in lo..hi : BitAt(w, k) = ((v % 2 ^ (hi - lo + 1)) \div 2 ^ (k - lo)) % 2

\* C8: for x, z in [-2^25, 2^25) and y in [-2^11, 2^11), pack_position
\* produces 8 bytes whose 64-bit big-endian word holds the two's complements
\* of x in bits 38..63, of y in bits 26..37 and of z in bits 0..25, and
\* unpack_position on those bytes returns exactly (x, y, z).
C8_PositionRoundTrip ==
    (packed.fn = "pack_position" /\ PositionInRange(packed.arg))
    => /\ packed.raised = "none"
       /\ Len(packed.out) = 8
       /\ FieldHolds(BitsOfBytes(packed.out), 38, 63, packed.arg.x)
       /\ FieldHolds(BitsOfBytes(packed.out), 26, 37, packed.arg.y)
       /\ FieldHolds(BitsOfBytes(packed.out), 0, 25, packed.arg.z)
       /\ (op = "unpack_position" /\ pos0 = 0 /\ buff0 = packed.out)
          => /\ raised = "none"
             /\ ret = <<packed.arg.x, packed.arg.y, packed.arg.z>>
             /\ pos = 8

\* a position with three negative fields, y at its minimum, came back
C8_Witness ==
    /\ packed.fn = "pack_position"
    /\ packed.arg = [x |-> -1, y |-> 0 - 2 ^ 11, z |-> 0 - 2 ^ 25]
    /\ op = "unpack_position"
    /\ pos0 = 0
    /\ buff0 = packed.out
    /\ raised = "none"
    /\ ret = <<-1, 0 - 2 ^ 11, 0 - 2 ^ 25>>

----------------------------------------------------------------------------
(* SpecDirection: unpack_direction on one or two varints                   *)

\* largest index, of either sign, encoded in the streams
MaxIndex == 8

IndexStreams == {pack_varint(PyInt(i), 32).out : i \in (0 - MaxIndex)..MaxIndex}

InitDirection ==
    \E data \in {<<>>} \cup {s \o t : s, t \in IndexStreams} : Construct(data)

Do_pack_direction ==
    \E i \in 1..Len(directions) :
        PackCall("pack_direction", [direction |-> directions[i]],
                 pack_direction(directions[i]))

Do_unpack_direction == Call("unpack_direction", None, unpack_direction(buff, pos))

NextDirection == Do_pack_direction \/ Do_unpack_direction

SpecDirection == InitDirection /\ [][NextDirection]_vars

\* C9: unpack_direction returns the i-th of (down, up, north, south, west,
\* east) when the decoded varint i is in 0..5, and raises, returning no
\* direction, for every decoded index outside 0..5, negative ones included.
C9_DirectionIndexChecked ==
    (/\ op = "unpack_direction"
     /\ VarintComplete(buff0, pos0)
     /\ Representable(DecodedInteger(buff0, pos0), 32))
    => IF /\ ~DecodedInteger(buff0, pos0).neg
          /\ PyLess(DecodedInteger(buff0, pos0), PyInt(6))
       THEN /\ raised = "none"
            /\ ret = directions[IntOfPy(DecodedInteger(buff0, pos0)) + 1]
       ELSE raised # "none" /\ ret = None

====
